---- MODULE Spec2Model ----
(***************************************************************************)
(* A model of src/src/date-factory.js (xb-date): the Date Value built by   *)
(* XBDateFactory over one mutable Date object of the host, its arithmetic  *)
(* (add, subtract, set), its comparison (is) and its constraint matching   *)
(* (matches).                                                              *)
(*                                                                         *)
(* A Date object is an instant [day, tod]: the day number since            *)
(* 1970-01-01 (UTC) and the milliseconds within that day.  The time value  *)
(* of ECMAScript is day * msPerDay + tod; it is kept in two parts so that  *)
(* every number stays within 32 bits.  The heap maps an object identity    *)
(* to the instant the object holds now, which is what makes aliasing       *)
(* between a Date Value and a result visible.                              *)
(***************************************************************************)
EXTENDS Integers, Sequences, FiniteSets, TLC

VARIABLES tz, heap, origin, res, last, steps

vars == <<tz, heap, origin, res, last, steps>>

(***************************************************************************)
(* Bounds of the model.                                                    *)
(***************************************************************************)
\* add, subtract and set calls made after the construction
MaxSteps == 2
\* the largest number of days a summand holds
MaxDays == 1000

(***************************************************************************)
(* The Date primitive of ECMAScript (ECMA-262, "Date Objects").            *)
(***************************************************************************)
msPerSecond == 1000
msPerMinute == 60 * msPerSecond
msPerHour == 60 * msPerMinute
msPerDay == 24 * msPerHour

\* Day number of the civil date year-month-day, month in 1..12, any integer
\* year (proleptic Gregorian calendar, as Day(MakeDay(...)) computes it).
DaysFromCivil(year, month, day) ==
  LET y == IF month <= 2 THEN year - 1 ELSE year
      era == y \div 400
      yoe == y - era * 400
      mp == IF month > 2 THEN month - 3 ELSE month + 9
      doy == (153 * mp + 2) \div 5 + day - 1
      doe == yoe * 365 + yoe \div 4 - yoe \div 100 + doy
  IN era * 146097 + doe - 719468

\* The civil date of a day number: [year, month (zero-based), date].
CivilFromDays(dayNumber) ==
  LET z == dayNumber + 719468
      era == z \div 146097
      doe == z - era * 146097
      yoe == (doe - doe \div 1460 + doe \div 36524 - doe \div 146096) \div 365
      doy == doe - (365 * yoe + yoe \div 4 - yoe \div 100)
      mp == (5 * doy + 2) \div 153
      d == doy - (153 * mp + 2) \div 5 + 1
      m == IF mp < 10 THEN mp + 3 ELSE mp - 9
      y == yoe + era * 400 + (IF m <= 2 THEN 1 ELSE 0)
  IN [year |-> y, month |-> m - 1, date |-> d]

\* MakeDay(year, month, date): month is zero-based and may lie outside
\* 0..11, date may lie outside the month; both roll over.
MakeDay(year, month, date) ==
  DaysFromCivil(year + month \div 12, (month % 12) + 1, 1) + date - 1

MakeTime(hour, min, sec, ms) ==
  hour * msPerHour + min * msPerMinute + sec * msPerSecond + ms

\* MakeDate(day, time): time may be negative or exceed a day.
MakeDate(day, time) ==
  [day |-> day + time \div msPerDay, tod |-> time % msPerDay]

\* The year argument of Date.UTC and of new Date(y, m, ...): 0..99 means
\* 1900..1999.
MakeFullYear(year) ==
  IF 0 <= year /\ year <= 99 THEN 1900 + year ELSE year

getUTCFullYear(t) == CivilFromDays(t.day).year
getUTCMonth(t) == CivilFromDays(t.day).month
getUTCDate(t) == CivilFromDays(t.day).date
getUTCHours(t) == t.tod \div msPerHour
getUTCMinutes(t) == (t.tod \div msPerMinute) % 60
getUTCSeconds(t) == (t.tod \div msPerSecond) % 60
getUTCMilliseconds(t) == t.tod % msPerSecond

\* Date.UTC(year, month, date, hours, minutes, seconds, ms)
DateUTC(year, month, date, hours, minutes, seconds, ms) ==
  MakeDate(MakeDay(MakeFullYear(year), month, date),
           MakeTime(hours, minutes, seconds, ms))

\* new Date(year, month, date, hours, minutes, seconds, ms): the fields are
\* read as LOCAL time of the host, whose offset from UTC is zone hours.
NewDateLocal(zone, year, month, date, hours, minutes, seconds, ms) ==
  MakeDate(MakeDay(MakeFullYear(year), month, date),
           MakeTime(hours, minutes, seconds, ms) - zone * msPerHour)

\* setUTCFullYear(year), setUTCMonth(month), setUTCDate(date), each with its
\* one argument: the other calendar fields are those the object holds.
setUTCFullYear(t, year) ==
  [day |-> MakeDay(year, getUTCMonth(t), getUTCDate(t)), tod |-> t.tod]

setUTCMonth(t, month) ==
  [day |-> MakeDay(getUTCFullYear(t), month, getUTCDate(t)), tod |-> t.tod]

setUTCDate(t, date) ==
  [day |-> MakeDay(getUTCFullYear(t), getUTCMonth(t), date), tod |-> t.tod]

(***************************************************************************)
(* Object and mapping helpers.                                             *)
(***************************************************************************)
\* { ...f, ...g }: the keys of both, g's value where both have the key
Spread(f, g) ==
  [k \in (DOMAIN f) \cup (DOMAIN g) |-> IF k \in DOMAIN g THEN g[k] ELSE f[k]]

(***************************************************************************)
(* XBDateFactory                                                           *)
(***************************************************************************)
DEFAULT_OPTIONS == [normalize |-> TRUE]

\* normalizeToUTC: the instant the new Date Value wraps, from the instant
\* date that new Date(dateArg) holds and the options given.
normalizeToUTC(date, optionsArg) ==
  LET options == Spread(DEFAULT_OPTIONS, optionsArg)
  IN DateUTC(getUTCFullYear(date), getUTCMonth(date), getUTCDate(date),
             IF options.normalize THEN 12 ELSE getUTCHours(date),
             IF options.normalize THEN 0 ELSE getUTCMinutes(date),
             IF options.normalize THEN 0 ELSE getUTCSeconds(date),
             IF options.normalize THEN 0 ELSE getUTCMilliseconds(date))

\* XBDateFactory(dateArg) with the options omitted
XBDateFactory(date) == normalizeToUTC(date, DEFAULT_OPTIONS)

\* The helper add(date, unit, value).  Its argument is a value of the
\* program: a raw Date object (kind "Date"), a Date Value (kind "XBDate",
\* which has no getUTCFullYear method) or an exception already thrown.
\* ref = 0 marks an object not yet on the heap.
add(zone, date, unit, value) ==
  IF date.kind # "Date"
  THEN [kind |-> "TypeError", ref |-> 0, t |-> date.t]
  ELSE LET increment == Spread([year |-> 0, month |-> 0, day |-> 0],
                               [k \in {unit} |-> value])
           newDate == NewDateLocal(zone,
                        getUTCFullYear(date.t) + increment.year,
                        getUTCMonth(date.t) + increment.month,
                        getUTCDate(date.t) + increment.day,
                        getUTCHours(date.t), getUTCMinutes(date.t),
                        getUTCSeconds(date.t), getUTCMilliseconds(date.t))
       IN [kind |-> "XBDate", ref |-> 0, t |-> XBDateFactory(newDate)]

\* Object.keys(summands || []).reduce((newDate, key) =>
\*     add(newDate, key, sign * summands[key]), utcDate)
\* entries is the mapping in key iteration order: <<unit, amount>> pairs.
RECURSIVE reduce(_, _, _, _)
reduce(zone, acc, entries, sign) ==
  IF entries = <<>> THEN acc
  ELSE reduce(zone, add(zone, acc, Head(entries)[1], sign * Head(entries)[2]),
              Tail(entries), sign)

\* summands || []
Keys(summands) == IF summands.given THEN summands.entries ELSE <<>>

(***************************************************************************)
(* Inputs.                                                                 *)
(***************************************************************************)
\* The host's offset from UTC, in hours: New York in winter, UTC,
\* Kiritimati.
Zones == {-5, 0, 14}

Instant(year, month, date, tod) ==
  [day |-> DaysFromCivil(year, month + 1, date), tod |-> tod]

\* Calendar days of the inputs: <<year, zero-based month, date>>
InputDays ==
  { <<2024, 0, 31>>, <<2023, 11, 31>>, <<100, 0, 1>>, <<50, 5, 15>>,
    <<-1, 2, 15>> }

\* Times of day of the inputs, in ms: 00:00:00.000, 08:30:15.250,
\* 23:59:59.999
InputTimes == { 0, MakeTime(8, 30, 15, 250), msPerDay - 1 }

InputInstants ==
  { Instant(d[1], d[2], d[3], tod) : d \in InputDays, tod \in InputTimes }

\* optionsArg: omitted (the default parameter), {}, { normalize: true },
\* { normalize: false }
InputOptions ==
  { [given |-> FALSE, map |-> <<>>],
    [given |-> TRUE, map |-> <<>>],
    [given |-> TRUE, map |-> [normalize |-> TRUE]],
    [given |-> TRUE, map |-> [normalize |-> FALSE]] }

\* function XBDateFactory( dateArg, optionsArg = DEFAULT_OPTIONS )
OptionsArg(o) == IF o.given THEN o.map ELSE DEFAULT_OPTIONS

\* Mappings given to add and subtract, in key order
InputSummands ==
  { [given |-> FALSE, entries |-> <<>>],
    [given |-> TRUE, entries |-> <<>>],
    [given |-> TRUE, entries |-> << <<"year", 1>>, <<"month", 1>> >>],
    [given |-> TRUE, entries |-> << <<"month", 1>>, <<"day", -1>> >>],
    [given |-> TRUE,
     entries |-> << <<"day", 1>>, <<"month", 1>>, <<"year", -1>> >>] }
  \cup { [given |-> TRUE, entries |-> << <<"day", n>> >>] :
           n \in {-MaxDays, -1, 1, MaxDays} }
  \cup { [given |-> TRUE, entries |-> << <<u, n>> >>] :
           u \in {"month", "year"}, n \in {-1, 1} }

\* The mapping with no key
NoKeys == [k \in {} |-> 0]

\* Mappings given to set: any part of year, month, day
InputValues ==
  { [given |-> FALSE, map |-> NoKeys] }
  \cup { [given |-> TRUE, map |-> Spread(Spread(y, m), d)] :
           y \in {NoKeys, [year |-> 50]},
           m \in {NoKeys, [month |-> 1], [month |-> 13]},
           d \in {NoKeys, [day |-> 15]} }

(***************************************************************************)
(* The state machine.  heap[i] is the instant held by the Date object i,   *)
(* which is the utcDate of exactly one Date Value (also named i).          *)
(* origin[i] tells how object i was made (a history variable).  res is what *)
(* the last call returned, last is the call itself with the receiver's     *)
(* instant before it.                                                      *)
(***************************************************************************)
NoResult == [kind |-> "none", ref |-> 0]

Init ==
  /\ tz \in Zones
  /\ heap = <<>>
  /\ origin = <<>>
  /\ res = NoResult
  /\ last = [op |-> "none"]
  /\ steps = 0

\* XBDateFactory( dateArg, optionsArg ) called by the user; date is the
\* instant of new Date( dateArg ).
Construct(date, o) ==
  /\ heap = <<>>
  /\ heap' = << normalizeToUTC(date, OptionsArg(o)) >>
  /\ origin' = << [op |-> "construct"] >>
  /\ res' = [kind |-> "XBDate", ref |-> 1]
  /\ last' = [op |-> "construct", date |-> date, options |-> o]
  /\ UNCHANGED <<tz, steps>>

\* What add and subtract of the Date Value x do with the outcome r of the
\* reduce: a Date Value made by the helper wraps a new object.
Arith(op, x, summands, r) ==
  /\ heap' = IF r.kind = "XBDate" THEN Append(heap, r.t) ELSE heap
  /\ origin' = IF r.kind = "XBDate"
               THEN Append(origin, [op |-> op, arg |-> summands,
                                    src |-> heap[x], t |-> r.t])
               ELSE origin
  /\ res' = IF r.kind = "XBDate"
            THEN [kind |-> "XBDate", ref |-> Len(heap) + 1]
            ELSE [kind |-> r.kind, ref |-> r.ref]
  /\ last' = [op |-> op, recv |-> x, arg |-> summands, pre |-> heap[x],
              origin |-> origin[x]]
  /\ steps' = steps + 1
  /\ UNCHANGED tz

\* x.add( summands )
Add(x, summands) ==
  /\ steps < MaxSteps
  /\ Arith("add", x, summands,
           reduce(tz, [kind |-> "Date", ref |-> x, t |-> heap[x]],
                  Keys(summands), 1))

\* x.subtract( subtrahends )
Subtract(x, subtrahends) ==
  /\ steps < MaxSteps
  /\ Arith("subtract", x, subtrahends,
           reduce(tz, [kind |-> "Date", ref |-> x, t |-> heap[x]],
                  Keys(subtrahends), -1))

\* The instant utcDate holds after set( values )
setFields(t, values) ==
  LET newValue == Spread([year |-> getUTCFullYear(t),
                          month |-> getUTCMonth(t),
                          day |-> getUTCDate(t)],
                         IF values.given THEN values.map ELSE NoKeys)
  IN setUTCDate(setUTCMonth(setUTCFullYear(t, newValue.year),
                            newValue.month),
                newValue.day)

\* x.set( values ): returns this
Set(x, values) ==
  /\ steps < MaxSteps
  /\ heap' = [heap EXCEPT ![x] = setFields(heap[x], values)]
  /\ res' = [kind |-> "XBDate", ref |-> x]
  /\ last' = [op |-> "set", recv |-> x, arg |-> values, pre |-> heap[x],
              heap |-> heap]
  /\ steps' = steps + 1
  /\ UNCHANGED <<tz, origin>>

(***************************************************************************)
(* is( operator, otherDate, precision ).  Strings are sequences of         *)
(* one-character strings, so that formatting and parsing are computed.     *)
(***************************************************************************)
Digit(n) == <<"0", "1", "2", "3", "4", "5", "6", "7", "8", "9">>[n + 1]

RECURSIVE Digits(_)
Digits(n) == IF n < 10 THEN <<Digit(n)>> ELSE Digits(n \div 10) \o <<Digit(n % 10)>>

\* String( value ) of an integer
String(value) == IF value < 0 THEN <<"-">> \o Digits(-value) ELSE Digits(value)

RECURSIVE padStart(_, _, _)
padStart(str, maxLength, fill) ==
  IF Len(str) >= maxLength THEN str ELSE padStart(<<fill>> \o str, maxLength, fill)

DigitValue(c) == CHOOSE n \in 0..9 : Digit(n) = c

RECURSIVE ParseDigits(_, _)
ParseDigits(str, acc) ==
  IF str = <<>> THEN acc
  ELSE ParseDigits(Tail(str), acc * 10 + DigitValue(Head(str)))

\* Number( str ) of an optional minus sign and decimal digits
Number(str) ==
  IF str # <<>> /\ Head(str) = "-" THEN -ParseDigits(Tail(str), 0)
  ELSE ParseDigits(str, 0)

RECURSIVE join(_)
join(parts) == IF parts = <<>> THEN <<>> ELSE Head(parts) \o join(Tail(parts))

\* A getSafeOperator that passes every operator but '=' on to the expression
getSafeOperatorUnchecked(operator) ==
  IF operator = "=" THEN "===" ELSE operator

getSafeOperator(operator) ==
  IF operator \notin {">=", ">", "=", "<", "<="} \/ operator = "="
  THEN "===" ELSE operator

padded(value) == padStart(String(value), 2, "0")

\* COMPARE_TO[ precision ]; slice( 0, undefined ) keeps the three parts
COMPARE_TO(precision) ==
  CASE precision = "year" -> 1
    [] precision = "month" -> 2
    [] OTHER -> 3

\* A getComparableDate that forgets the slice to the precision
getComparableDateUnsliced(date, precision) ==
  join(<<String(getUTCFullYear(date)), padded(getUTCMonth(date)),
         padded(getUTCDate(date))>>)

getComparableDate(date, precision) ==
  join(SubSeq(<<String(getUTCFullYear(date)), padded(getUTCMonth(date)),
                padded(getUTCDate(date))>>,
              1, COMPARE_TO(precision)))

\* Function( `"use strict";return (${ a } ${ op } ${ b })` )(): the value of
\* the expression, or the SyntaxError of a text that is no expression.
compare(a, b, op) ==
  CASE op = "===" \/ op = "==" -> [kind |-> "boolean", ref |-> 0, val |-> a = b]
    [] op = "!==" \/ op = "!=" -> [kind |-> "boolean", ref |-> 0, val |-> a # b]
    [] op = ">=" -> [kind |-> "boolean", ref |-> 0, val |-> a >= b]
    [] op = ">" -> [kind |-> "boolean", ref |-> 0, val |-> a > b]
    [] op = "<" -> [kind |-> "boolean", ref |-> 0, val |-> a < b]
    [] op = "<=" -> [kind |-> "boolean", ref |-> 0, val |-> a <= b]
    [] OTHER -> [kind |-> "SyntaxError", ref |-> 0, val |-> FALSE]

\* The value of is( operator, otherDate, precision ) on the Date Value
\* whose utcDate holds t, otherDate.get() holding other.
is(t, operator, other, precision) ==
  compare(Number(getComparableDate(t, precision)),
          Number(getComparableDate(other, precision)),
          getSafeOperator(operator))

\* x.is( operator, otherDate, precision ); otherDate is a Date Value of the
\* caller's that holds other.
Is(x, operator, other, precision) ==
  /\ res' = is(heap[x], operator, other, precision)
  /\ last' = [op |-> "is", recv |-> x, operator |-> operator, other |-> other,
              precision |-> precision, pre |-> heap[x]]
  /\ UNCHANGED <<tz, heap, origin, steps>>

(***************************************************************************)
(* matches( ...constraints ).  isEmpty and getConstraintEvaluator live in  *)
(* ./is-empty and ./date-constraints; they are modelled from their         *)
(* contracts.                                                              *)
(***************************************************************************)
isEmpty(sequence) == Len(sequence) = 0

\* The predicates a caller passes as function constraints
ApplyFunction(fn, t) ==
  CASE fn = "always" -> TRUE
    [] fn = "never" -> FALSE
    [] fn = "morning" -> getUTCHours(t) < 12
    [] fn = "midMonth" -> getUTCDate(t) = 15

\* getConstraintEvaluator( constraint )( date ), date holding t
Evaluate(constraint, t) ==
  CASE constraint.shape = "function" -> ApplyFunction(constraint.fn, t)
    [] constraint.shape = "range" ->
         /\ is(t, ">=", XBDateFactory(constraint.start), "day").val
         /\ is(t, "<=", XBDateFactory(constraint.end), "day").val
    [] OTHER -> is(t, "=", XBDateFactory(constraint.start), "day").val

\* constraintEvaluators.some( ( evaluator ) => evaluator( date ) )
RECURSIVE some(_, _)
some(constraints, t) ==
  IF constraints = <<>> THEN FALSE
  ELSE Evaluate(Head(constraints), t) \/ some(Tail(constraints), t)

matches(utcDate, constraints) ==
  IF isEmpty(constraints) THEN FALSE
  ELSE some(constraints, XBDateFactory(utcDate))

\* x.matches( ...constraints )
Matches(x, constraints) ==
  /\ res' = [kind |-> "boolean", ref |-> 0, val |-> matches(heap[x], constraints)]
  /\ last' = [op |-> "matches", recv |-> x, constraints |-> constraints,
              pre |-> heap[x]]
  /\ UNCHANGED <<tz, heap, origin, steps>>

(***************************************************************************)
(* Inputs of the queries.                                                  *)
(***************************************************************************)
InputOperators == {">=", ">", "=", "<", "<=", "bogus", "==", "===", ""}

Precisions == {"year", "month", "day"}

\* The instants of the Date Values given as otherDate: constructed ones,
\* and one moved into year 50 by set.
OtherInstants ==
  { XBDateFactory(Instant(d[1], d[2], d[3], 0)) :
      d \in InputDays \cup { <<2024, 2, 15>>, <<-1, 5, 15>>, <<-1, 2, 16>> } }
  \cup { setFields(XBDateFactory(Instant(2024, 0, 31, 0)),
                   [given |-> TRUE, map |-> [year |-> 50]]),
         normalizeToUTC(Instant(2024, 0, 31, msPerDay - 1),
                        [normalize |-> FALSE]) }

DateConstraint(date) == [shape |-> "date", start |-> date, end |-> date, fn |-> ""]

RangeConstraint(start, end) == [shape |-> "range", start |-> start, end |-> end, fn |-> ""]

FunctionConstraint(fn) ==
  [shape |-> "function", start |-> Instant(1970, 0, 1, 0),
   end |-> Instant(1970, 0, 1, 0), fn |-> fn]

InputConstraints ==
  { DateConstraint(Instant(2024, 0, 31, 23 * msPerHour)),
    DateConstraint(Instant(1950, 5, 15, 0)),
    RangeConstraint(Instant(2023, 11, 31, 0), Instant(2024, 0, 31, 0)),
    FunctionConstraint("never"),
    FunctionConstraint("morning"),
    FunctionConstraint("midMonth") }

InputConstraintLists ==
  { <<>> } \cup { <<c>> : c \in InputConstraints }
  \cup { <<c1, c2>> : c1 \in InputConstraints, c2 \in InputConstraints }

(***************************************************************************)
(* Steps and specifications.  Spec explores the calls that make or change  *)
(* Date Values; SpecQuery explores the two queries, which change nothing,  *)
(* on every Date Value a construction gives.                               *)
(***************************************************************************)
ConstructStep ==
  \E date \in InputInstants, o \in InputOptions : Construct(date, o)

AddStep ==
  \E x \in DOMAIN heap, s \in InputSummands : Add(x, s)

SubtractStep ==
  \E x \in DOMAIN heap, s \in InputSummands : Subtract(x, s)

SetStep ==
  \E x \in DOMAIN heap, v \in InputValues : Set(x, v)

\* A query changes no Date Value: a query made after another query reaches
\* nothing that the same query made first does not reach, so the queries are
\* explored as the call that follows a call making or changing a Date Value.
QueryDue == last.op \notin {"is", "matches"}

IsStep ==
  /\ QueryDue
  /\ \E x \in DOMAIN heap, operator \in InputOperators, other \in OtherInstants,
       precision \in Precisions : Is(x, operator, other, precision)

MatchesStep ==
  /\ QueryDue
  /\ \E x \in DOMAIN heap, constraints \in InputConstraintLists :
       Matches(x, constraints)

Next == ConstructStep \/ AddStep \/ SubtractStep \/ SetStep

Spec == Init /\ [][Next]_vars

NextQuery == ConstructStep \/ IsStep \/ MatchesStep

SpecQuery == Init /\ [][NextQuery]_vars

(***************************************************************************)
(* The claims.  Each is a predicate of the state a call leaves: last is    *)
(* the call, last.pre the receiver's instant before it, res its result.    *)
(***************************************************************************)
SameDay(t1, t2) ==
  /\ getUTCFullYear(t1) = getUTCFullYear(t2)
  /\ getUTCMonth(t1) = getUTCMonth(t2)
  /\ getUTCDate(t1) = getUTCDate(t2)

\* The normalize option in force for the options given to a construction
NormalizeInForce(o) ==
  \/ ~o.given
  \/ "normalize" \notin DOMAIN o.map
  \/ o.map.normalize

\* C1: a Date Value constructed with normalize true (also by default, with
\* the options omitted or without a normalize key) holds 12:00:00.000 UTC
\* on the UTC year, month and day of the input instant.
C1_ConstructNoonOfInputDay ==
  (last.op = "construct" /\ NormalizeInForce(last.options)) =>
    /\ getUTCHours(heap[1]) = 12
    /\ getUTCMinutes(heap[1]) = 0
    /\ getUTCSeconds(heap[1]) = 0
    /\ getUTCMilliseconds(heap[1]) = 0
    /\ SameDay(heap[1], last.date)

DayOnly(summands) ==
  /\ summands.given
  /\ Len(summands.entries) = 1
  /\ summands.entries[1][1] = "day"

\* C2: x.add({day: n}).subtract({day: n}) is a Date Value on the UTC year,
\* month and day of x, for every n in -MaxDays..MaxDays and every offset
\* of the host.
C2_AddSubtractDayRoundTrip ==
  (/\ last.op = "subtract"
   /\ DayOnly(last.arg)
   /\ last.origin.op = "add"
   /\ last.origin.arg = last.arg
   /\ last.origin.t = last.pre) =>
    /\ res.kind = "XBDate"
    /\ SameDay(heap[res.ref], last.origin.src)

\* The instant after each unit of entries was added in turn to t, each step
\* through the helper add on the instant of the step before.
RECURSIVE Stepwise(_, _, _, _)
Stepwise(zone, t, entries, sign) ==
  IF entries = <<>> THEN t
  ELSE Stepwise(zone,
                add(zone, [kind |-> "Date", ref |-> 0, t |-> t],
                    Head(entries)[1], sign * Head(entries)[2]).t,
                Tail(entries), sign)

\* C3: add (subtract) with two or more units does not fail and returns the
\* Date Value of the last of the steps that add (subtract) each unit in key
\* order.
C3_SeveralUnitsInTurn ==
  (last.op \in {"add", "subtract"} /\ Len(Keys(last.arg)) >= 2) =>
    /\ res.kind = "XBDate"
    /\ heap[res.ref] = Stepwise(tz, last.pre, Keys(last.arg),
                                IF last.op = "add" THEN 1 ELSE -1)

\* C4: matches() is false, and matches(c1, ..., ck) is true exactly when
\* the evaluator of at least one ci is true for this Date Value.
C4_MatchesAnyForReceiver ==
  (last.op = "matches") =>
    /\ res.kind = "boolean"
    /\ res.val = (/\ Len(last.constraints) >= 1
                  /\ \E i \in 1..Len(last.constraints) :
                       Evaluate(last.constraints[i], last.pre))

\* C5: a.is('=', b, 'year') is true exactly when a and b have the same UTC
\* year, whatever their months and days.
C5_EqualYear ==
  (last.op = "is" /\ last.operator = "=" /\ last.precision = "year") =>
    /\ res.kind = "boolean"
    /\ res.val = (getUTCFullYear(last.pre) = getUTCFullYear(last.other))

\* C5 happens: two values of one year and different months compared, true.
C5_Witness ==
  /\ last.op = "is" /\ last.operator = "=" /\ last.precision = "year"
  /\ getUTCFullYear(last.pre) = getUTCFullYear(last.other)
  /\ getUTCMonth(last.pre) # getUTCMonth(last.other)
  /\ res.kind = "boolean" /\ res.val

\* C6: with an operator that is none of >=, >, =, <, <=, is does not fail
\* and returns what is('=', b, p) returns.
C6_UnknownOperatorIsEquality ==
  (last.op = "is" /\ last.operator \notin {">=", ">", "=", "<", "<="}) =>
    /\ res.kind = "boolean"
    /\ res = is(last.pre, "=", last.other, last.precision)

\* C6 happens: is('bogus', b, 'month') on two values of one month and
\* different days, true.
C6_Witness ==
  /\ last.op = "is" /\ last.operator = "bogus" /\ last.precision = "month"
  /\ getUTCDate(last.pre) # getUTCDate(last.other)
  /\ res.kind = "boolean" /\ res.val

\* The calendar fields of t down to the precision
Truncated(t, precision) ==
  SubSeq(<<getUTCFullYear(t), getUTCMonth(t), getUTCDate(t)>>,
         1, COMPARE_TO(precision))

RECURSIVE Before(_, _)
\* Calendar order of two field tuples of one length
Before(a, b) ==
  /\ a # <<>>
  /\ \/ Head(a) < Head(b)
     \/ Head(a) = Head(b) /\ Before(Tail(a), Tail(b))

\* C7: for op in >=, >, <, <=, a.is(op, b, p) is the comparison by op of
\* the calendar tuples of a and b truncated to p, for every year.
C7_OrderIsCalendarOrder ==
  (last.op = "is" /\ last.operator \in {">=", ">", "<", "<="}) =>
    LET a == Truncated(last.pre, last.precision)
        b == Truncated(last.other, last.precision)
    IN /\ res.kind = "boolean"
       /\ res.val = CASE last.operator = "<" -> Before(a, b)
                      [] last.operator = "<=" -> ~Before(b, a)
                      [] last.operator = ">" -> Before(b, a)
                      [] last.operator = ">=" -> ~Before(a, b)

\* C8: x.set({month: 13}) returns x, and x is then on the date the rollover
\* rule of the primitive gives for month 13 of x's year with x's day: in
\* the following year, in February when the day fits it.
C8_SetMonth13RollsOver ==
  (last.op = "set" /\ last.arg.given /\ last.arg.map = [month |-> 13]) =>
    LET rolled == CivilFromDays(MakeDay(getUTCFullYear(last.pre), 13,
                                        getUTCDate(last.pre)))
        now == heap[last.recv]
    IN /\ res = [kind |-> "XBDate", ref |-> last.recv]
       /\ getUTCFullYear(now) = getUTCFullYear(last.pre) + 1
       /\ getUTCMonth(now) = rolled.month
       /\ getUTCDate(now) = rolled.date

\* C9: add and subtract leave the receiver as it was and return a new Date
\* Value that does not share its instant with the receiver; a later set on
\* a Date Value changes no other Date Value.
C9_ArithmeticReturnsNewValue ==
  /\ (last.op \in {"add", "subtract"}) =>
       /\ heap[last.recv] = last.pre
       /\ res.kind = "XBDate"
       /\ res.ref # last.recv
  /\ (last.op = "set") =>
       \A i \in DOMAIN heap : i # last.recv => heap[i] = last.heap[i]

\* The number of days of the zero-based month of the year
DaysInMonth(year, month) == MakeDay(year, month + 1, 1) - MakeDay(year, month, 1)

\* C10: when the fields asked of set, completed by the receiver's own, are a
\* valid calendar date, the receiver is on that date afterwards and its
\* time of day is unchanged.
C10_SetGivesAskedDate ==
  (last.op = "set") =>
    LET asked == Spread([year |-> getUTCFullYear(last.pre),
                         month |-> getUTCMonth(last.pre),
                         day |-> getUTCDate(last.pre)],
                        IF last.arg.given THEN last.arg.map ELSE NoKeys)
        now == heap[last.recv]
    IN (/\ asked.month \in 0..11
        /\ asked.day \in 1..DaysInMonth(asked.year, asked.month)) =>
         /\ getUTCFullYear(now) = asked.year
         /\ getUTCMonth(now) = asked.month
         /\ getUTCDate(now) = asked.day
         /\ now.tod = last.pre.tod

====
